---------------------------- MODULE Spec2Model ----------------------------
(* A model of examples/python-fastapi/interaction_log.py: the thread-safe   *)
(* circular InteractionLog, called from several execution contexts.        *)
(*                                                                         *)
(* Python objects are modelled by a heap: every add call builds one dict,  *)
(* heap[r] is the dict with reference r, and a slot of the buffer holds a   *)
(* reference or None.  A dict is a function from field names to values.     *)
(* Timestamps are integers: the ISO-8601 text of an instant is modelled by  *)
(* the instant.  Every statement of a critical section is one step.         *)
EXTENDS Integers, Sequences, FiniteSets

\* ---------------------------------------------------------------- bounds
\* One caller: the largest capacity and the number of add calls of a run.
SeqMaxCapacity == 3
SeqMaxAdds == 4
\* Concurrent callers: their number, the largest capacity and the number of
\* add calls of a run.
NumThreads == 2
ConcMaxCapacity == 2
ConcMaxAdds == 2
\* Fair scheduling: the number of add calls of a run.
FairMaxAdds == 1
\* Payments: the largest amount and price, and the latest time and deadline.
MaxAmount == 3
MaxTime == 2
\* The log a wrapped handler may use: its largest capacity and the number of
\* add calls.
PayLogCapacity == 1
PayLogAdds == 1

\* ---------------------------------------------------------------- values
None == 0
\* A timestamp value a caller passes as a field of its own: an instant
\* before every reading of the clock.
CallerTimestamp == 0
\* A list: a value Python cannot hash.
ListValue == "['mcp']"
Unhashable == {ListValue}
EmptyDict == [k \in {} |-> 0]

\* The keyword arguments a caller may pass to add.
KwargsSet ==
  { EmptyDict,
    [type |-> "mcp"],
    [type |-> "a2a", timestamp |-> CallerTimestamp],
    [type |-> ListValue] }

\* The keyword arguments concurrent callers pass to add.
ConcKwargsSet ==
  { [type |-> "mcp"],
    [type |-> ListValue] }

\* ---------------------------------------------------------------- state
VARIABLES
  built,     \* whether InteractionLog(max_size) has returned an instance
  max_size,  \* self._max_size
  buffer,    \* self._buffer: a sequence of references (Python index i is i+1)
  head,      \* self._head
  count,     \* self._count
  lock,      \* self._lock: 0 when free, else the thread holding it
  heap,      \* the dicts built so far; a reference is an index
  clock,     \* the last reading of datetime.now(timezone.utc)
  env,       \* the callers of the run: what they may pass, how often they add
  pc,        \* each thread's position
  loc,       \* each thread's local variables
  stamps,    \* history: stamps[r] is the clock reading add took for heap[r]
  hist,      \* history: references added since construction or the last clear
  req        \* x402_middleware: the decorator's arguments and the request in hand

vars == <<built, max_size, buffer, head, count, lock, heap, clock, env, pc, loc,
          stamps, hist, req>>

Threads == DOMAIN pc
\* The arguments a caller may pass to get_recent: negative, zero, up to and
\* beyond the capacity and the number of entries added.
NSet == (0 - 1)..env.max_n

\* ---------------------------------------------------------------- Python
Min(a, b) == IF a < b THEN a ELSE b

\* a % b as Python computes it for b # 0: the result has the sign of b.
PyMod(a, b) == IF b > 0 THEN a % b ELSE 0 - ((0 - a) % (0 - b))

\* [x] * m: the empty list for m <= 0.
ListRepeat(x, m) == [i \in 1..m |-> x]

\* {**base, **kw}: the fields of kw override those of base.
DictMerge(base, kw) ==
  [k \in (DOMAIN base) \cup (DOMAIN kw) |->
     IF k \in DOMAIN kw THEN kw[k] ELSE base[k]]

\* d.get(k, dflt)
DictGet(d, k, dflt) == IF k \in DOMAIN d THEN d[k] ELSE dflt

\* d[k] = v
DictSet(d, k, v) == [x \in (DOMAIN d) \cup {k} |-> IF x = k THEN v ELSE d[x]]

\* Whether lst[i] raises IndexError: i is outside -len(lst)..len(lst)-1.
IndexError(lst, i) == i >= Len(lst) \/ i < 0 - Len(lst)

\* The position of lst[i] in the sequence: a negative i counts from the end.
PyIndex(lst, i) == IF i >= 0 THEN i + 1 ELSE Len(lst) + i + 1

\* bool(entry) for a slot's value: None and the empty dict are false.
Truthy(r) == r # None /\ DOMAIN heap[r] # {}

NoLocals ==
  [entry |-> None, n |-> 0, count |-> 0, start |-> 0, i |-> 0,
   result |-> <<>>, by_type |-> EmptyDict, total |-> 0, err |-> "", op |-> ""]

\* The X-PAYMENT header of a request, by what decoding it gives: no header,
\* an empty one, text that is not base64 of JSON, JSON that is not an object,
\* or a payment object with its fields (version 0: no "x402Version"; to "":
\* no "to"; validBefore 0: no "validBefore"; numeric FALSE: an amount int()
\* rejects).
NoPayment(kind) ==
  [kind |-> kind, version |-> 0, to |-> "", amount |-> 0, numeric |-> TRUE,
   validBefore |-> 0]

\* x402_middleware: no request in hand.
NoRequest ==
  [pc |-> "none", price |-> 0, wallet |-> "", header |-> NoPayment("absent"),
   now |-> 0, fac |-> "none", verified |-> "unset", status |-> 0,
   invoked |-> FALSE, by |-> "none"]

\* ---------------------------------------------------------------- __init__
\* Lines 21-26.  No check of max_size: every integer builds an instance.
Construct ==
  /\ ~built
  /\ \E m \in env.capacities :
       /\ buffer' = ListRepeat(None, m)
       /\ max_size' = m
  /\ head' = 0
  /\ count' = 0
  /\ lock' = 0
  /\ built' = TRUE
  /\ UNCHANGED <<heap, clock, env, req, pc, loc, stamps, hist>>

\* ---------------------------------------------------------------- the lock
\* threading.Lock.acquire: blocks until the lock is free ...
CanAcquireAlways == TRUE

CanAcquire == lock = 0

\* ... and then holds it for the caller.
HeldByNobody(t) == 0

HeldBy(t) == t

\* with self._lock: entering.
Acquire(t) ==
  /\ pc[t] \in {"add_acquire", "gr_acquire", "gs_acquire", "cl_acquire"}
  /\ CanAcquire
  /\ lock' = HeldBy(t)
  /\ pc' = [pc EXCEPT ![t] =
        CASE pc[t] = "add_acquire" -> "add_store"
          [] pc[t] = "gr_acquire" -> "gr_init"
          [] pc[t] = "gs_acquire" -> "gs_init"
          [] pc[t] = "cl_acquire" -> "cl_head"]
  /\ UNCHANGED <<built, max_size, buffer, head, count, heap, clock, env, req, loc,
                 stamps, hist>>

\* with self._lock: leaving, by return or by exception; the call ends.
ReleaseOnReturnOnly(t) ==
  /\ pc[t] \in {"add_exit", "gr_return", "gs_return", "cl_exit", "raise"}
  /\ lock' = IF pc[t] = "raise" THEN lock ELSE 0
  /\ pc' = [pc EXCEPT ![t] = "idle"]
  /\ loc' = [loc EXCEPT ![t] = NoLocals]
  /\ UNCHANGED <<built, max_size, buffer, head, count, heap, clock, env, req,
                 stamps, hist>>

Release(t) ==
  /\ pc[t] \in {"add_exit", "gr_return", "gs_return", "cl_exit", "raise"}
  /\ lock' = 0
  /\ pc' = [pc EXCEPT ![t] = "idle"]
  /\ loc' = [loc EXCEPT ![t] = NoLocals]
  /\ UNCHANGED <<built, max_size, buffer, head, count, heap, clock, env, req,
                 stamps, hist>>

\* ---------------------------------------------------------------- add
\* Lines 29-32: the entry is built before the lock is taken.
NewEntry(now, kwargs) == DictMerge([timestamp |-> now], kwargs)

\* Line 30 reads the clock; successive readings are modelled as increasing.
AddCall(t) ==
  /\ built /\ pc[t] = "idle"
  /\ Len(heap) < env.max_adds
  /\ clock' = clock + 1
  /\ \E kwargs \in env.kwargs :
       heap' = Append(heap, NewEntry(clock', kwargs))
  /\ stamps' = Append(stamps, clock')
  /\ loc' = [loc EXCEPT ![t] = [NoLocals EXCEPT !.entry = Len(heap'), !.op = "add"]]
  /\ pc' = [pc EXCEPT ![t] = "add_acquire"]
  /\ UNCHANGED <<built, max_size, buffer, head, count, lock, env, req, hist>>

\* Line 34: self._buffer[self._head] = entry
AddStoreAtZero(t) ==
  /\ pc[t] = "add_store"
  /\ IF IndexError(buffer, head)
       THEN /\ pc' = [pc EXCEPT ![t] = "raise"]
            /\ loc' = [loc EXCEPT ![t].err = "IndexError"]
            /\ UNCHANGED buffer
       ELSE /\ buffer' = [buffer EXCEPT ![1] = loc[t].entry]
            /\ pc' = [pc EXCEPT ![t] = "add_head"]
            /\ UNCHANGED loc
  /\ UNCHANGED <<built, max_size, head, count, lock, heap, clock, env, req, stamps, hist>>

AddStore(t) ==
  /\ pc[t] = "add_store"
  /\ IF IndexError(buffer, head)
       THEN /\ pc' = [pc EXCEPT ![t] = "raise"]
            /\ loc' = [loc EXCEPT ![t].err = "IndexError"]
            /\ UNCHANGED buffer
       ELSE /\ buffer' = [buffer EXCEPT ![PyIndex(buffer, head)] = loc[t].entry]
            /\ pc' = [pc EXCEPT ![t] = "add_head"]
            /\ UNCHANGED loc
  /\ UNCHANGED <<built, max_size, head, count, lock, heap, clock, env, req, stamps, hist>>

\* Line 35: self._head = (self._head + 1) % self._max_size
NextHeadStuck(h, m) == h

NextHeadNoWrap(h, m) == h + 1

NextHead(h, m) == PyMod(h + 1, m)

AddHead(t) ==
  /\ pc[t] = "add_head"
  /\ IF max_size = 0
       THEN /\ pc' = [pc EXCEPT ![t] = "raise"]
            /\ loc' = [loc EXCEPT ![t].err = "ZeroDivisionError"]
            /\ UNCHANGED head
       ELSE /\ head' = NextHead(head, max_size)
            /\ pc' = [pc EXCEPT ![t] = "add_count"]
            /\ UNCHANGED loc
  /\ UNCHANGED <<built, max_size, buffer, count, lock, heap, clock, env, req, stamps, hist>>

\* Lines 36-37: if self._count < self._max_size: self._count += 1
NextCountUncapped(c, m) == c + 1

NextCount(c, m) == IF c < m THEN c + 1 ELSE c

AddCount(t) ==
  /\ pc[t] = "add_count"
  /\ count' = NextCount(count, max_size)
  /\ hist' = Append(hist, loc[t].entry)
  /\ pc' = [pc EXCEPT ![t] = "add_exit"]
  /\ UNCHANGED <<built, max_size, buffer, head, lock, heap, clock, env, req, loc, stamps>>


\* ---------------------------------------------------------------- get_recent
\* Line 39: the call.  Its argument n is private to the caller until line 42
\* reads it, and is drawn there.
GetRecentCall(t) ==
  /\ built /\ pc[t] = "idle"
  /\ loc' = [loc EXCEPT ![t] = [NoLocals EXCEPT !.op = "get_recent"]]
  /\ pc' = [pc EXCEPT ![t] = "gr_acquire"]
  /\ UNCHANGED <<built, max_size, buffer, head, count, lock, heap, clock, env, req,
                 stamps, hist>>

\* Line 42: count = min(n, self._count)
WindowCountIgnoresCount(n, c) == n

WindowCount(n, c) == Min(n, c)

\* Line 43: start = (self._head - count + self._max_size) % self._max_size
WindowStartAtHead(h, c, m) == PyMod(h + m, m)

WindowStart(h, c, m) == PyMod(h - c + m, m)

\* Lines 41-43.
GetRecentInit(t) ==
  /\ pc[t] = "gr_init"
  /\ IF max_size = 0
       THEN /\ pc' = [pc EXCEPT ![t] = "raise"]
            /\ loc' = [loc EXCEPT ![t].err = "ZeroDivisionError"]
       ELSE /\ \E n \in NSet :
                 loc' = [loc EXCEPT ![t].n = n,
                                    ![t].result = <<>>,
                                    ![t].count = WindowCount(n, count),
                                    ![t].start =
                                       WindowStart(head, WindowCount(n, count),
                                                   max_size),
                                    ![t].i = 0]
            /\ pc' = [pc EXCEPT ![t] = "gr_loop"]
  /\ UNCHANGED <<built, max_size, buffer, head, count, lock, heap, clock, env, req,
                 stamps, hist>>

\* Line 45: idx = (start + i) % self._max_size
RecentIndexOffByOne(start, i, m) == PyMod(start + i + 1, m)

RecentIndex(start, i, m) == PyMod(start + i, m)

\* Lines 44-49: one iteration of the loop, or its end (the return value is
\* ready and the lock still held).
GetRecentLoop(t) ==
  /\ pc[t] = "gr_loop"
  /\ IF loc[t].i < loc[t].count
       THEN LET idx == RecentIndex(loc[t].start, loc[t].i, max_size)
            IN  IF IndexError(buffer, idx)
                  THEN /\ pc' = [pc EXCEPT ![t] = "raise"]
                       /\ loc' = [loc EXCEPT ![t].err = "IndexError"]
                  ELSE /\ loc' = [loc EXCEPT
                             ![t].result =
                                IF buffer[PyIndex(buffer, idx)] # None
                                  THEN Append(loc[t].result,
                                              buffer[PyIndex(buffer, idx)])
                                  ELSE loc[t].result,
                             ![t].i = loc[t].i + 1]
                       /\ UNCHANGED pc
       ELSE /\ pc' = [pc EXCEPT ![t] = "gr_return"]
            /\ UNCHANGED loc
  /\ UNCHANGED <<built, max_size, buffer, head, count, lock, heap, clock, env, req,
                 stamps, hist>>

\* ---------------------------------------------------------------- get_stats
\* Line 51: the call.
GetStatsCall(t) ==
  /\ built /\ pc[t] = "idle"
  /\ loc' = [loc EXCEPT ![t] = [NoLocals EXCEPT !.op = "get_stats"]]
  /\ pc' = [pc EXCEPT ![t] = "gs_acquire"]
  /\ UNCHANGED <<built, max_size, buffer, head, count, lock, heap, clock, env, req,
                 stamps, hist>>

\* Lines 53-54: by_type = {}; range(self._count) is evaluated once.
GetStatsInit(t) ==
  /\ pc[t] = "gs_init"
  /\ loc' = [loc EXCEPT ![t].by_type = EmptyDict, ![t].count = count, ![t].i = 0]
  /\ pc' = [pc EXCEPT ![t] = "gs_loop"]
  /\ UNCHANGED <<built, max_size, buffer, head, count, lock, heap, clock, env, req,
                 stamps, hist>>

\* Line 55: idx = (self._head - self._count + i + self._max_size) % self._max_size
StatsIndexFromHead(h, c, i, m) == PyMod(h + i, m)

StatsIndex(h, c, i, m) == PyMod(h - c + i + m, m)

\* Lines 57-59: the entry's share of by_type.
CountTypeOnce(by_type, r) ==
  IF Truthy(r) /\ "type" \in DOMAIN heap[r]
    THEN DictSet(by_type, heap[r]["type"], 1)
    ELSE by_type

CountType(by_type, r) ==
  IF Truthy(r) /\ "type" \in DOMAIN heap[r]
    THEN DictSet(by_type, heap[r]["type"], DictGet(by_type, heap[r]["type"], 0) + 1)
    ELSE by_type

\* Lines 54-60: one iteration of the loop, or its end (the return value is
\* ready and the lock still held).  A dict key must be hashable.
GetStatsLoop(t) ==
  /\ pc[t] = "gs_loop"
  /\ IF loc[t].i < loc[t].count
       THEN IF max_size = 0
              THEN /\ pc' = [pc EXCEPT ![t] = "raise"]
                   /\ loc' = [loc EXCEPT ![t].err = "ZeroDivisionError"]
              ELSE LET idx == StatsIndex(head, count, loc[t].i, max_size)
                   IN  IF IndexError(buffer, idx)
                         THEN /\ pc' = [pc EXCEPT ![t] = "raise"]
                              /\ loc' = [loc EXCEPT ![t].err = "IndexError"]
                         ELSE LET r == buffer[PyIndex(buffer, idx)]
                              IN  IF /\ Truthy(r)
                                     /\ "type" \in DOMAIN heap[r]
                                     /\ heap[r]["type"] \in Unhashable
                                    THEN /\ pc' = [pc EXCEPT ![t] = "raise"]
                                         /\ loc' = [loc EXCEPT ![t].err = "TypeError"]
                                    ELSE /\ loc' = [loc EXCEPT
                                               ![t].by_type = CountType(loc[t].by_type, r),
                                               ![t].i = loc[t].i + 1]
                                         /\ UNCHANGED pc
       ELSE /\ pc' = [pc EXCEPT ![t] = "gs_return"]
            /\ loc' = [loc EXCEPT ![t].total = count]
  /\ UNCHANGED <<built, max_size, buffer, head, count, lock, heap, clock, env, req,
                 stamps, hist>>

\* ---------------------------------------------------------------- clear
\* Line 62: the call.
ClearCall(t) ==
  /\ built /\ pc[t] = "idle"
  /\ loc' = [loc EXCEPT ![t] = [NoLocals EXCEPT !.op = "clear"]]
  /\ pc' = [pc EXCEPT ![t] = "cl_acquire"]
  /\ UNCHANGED <<built, max_size, buffer, head, count, lock, heap, clock, env, req,
                 stamps, hist>>

\* Line 64: self._head = 0
ClearHeadWipes(t) ==
  /\ pc[t] = "cl_head"
  /\ head' = 0
  /\ buffer' = ListRepeat(None, Len(buffer))
  /\ pc' = [pc EXCEPT ![t] = "cl_count"]
  /\ UNCHANGED <<built, max_size, count, lock, heap, clock, env, req, loc,
                 stamps, hist>>

ClearHead(t) ==
  /\ pc[t] = "cl_head"
  /\ head' = 0
  /\ pc' = [pc EXCEPT ![t] = "cl_count"]
  /\ UNCHANGED <<built, max_size, buffer, count, lock, heap, clock, env, req, loc,
                 stamps, hist>>

\* Line 65: self._count = 0
ClearCountKeeps(t) ==
  /\ pc[t] = "cl_count"
  /\ hist' = <<>>
  /\ pc' = [pc EXCEPT ![t] = "cl_exit"]
  /\ UNCHANGED <<built, max_size, buffer, head, count, lock, heap, clock, env, req,
                 loc, stamps>>

ClearCount(t) ==
  /\ pc[t] = "cl_count"
  /\ count' = 0
  /\ hist' = <<>>
  /\ pc' = [pc EXCEPT ![t] = "cl_exit"]
  /\ UNCHANGED <<built, max_size, buffer, head, lock, heap, clock, env, req, loc, stamps>>

\* ---------------------------------------------------------------- the system
Start(T, caps, adds, kws) ==
  /\ env = [capacities |-> caps, max_adds |-> adds, kwargs |-> kws,
            max_n |-> adds + 1]
  /\ pc = [t \in T |-> "idle"]
  /\ loc = [t \in T |-> NoLocals]
  /\ built = FALSE
  /\ max_size = 0
  /\ buffer = <<>>
  /\ head = 0
  /\ count = 0
  /\ lock = 0
  /\ heap = <<>>
  /\ clock = 0
  /\ stamps = <<>>
  /\ hist = <<>>

Step(t) ==
  \/ AddCall(t)
  \/ AddStore(t)
  \/ AddHead(t)
  \/ AddCount(t)
  \/ GetRecentCall(t)
  \/ GetRecentInit(t)
  \/ GetRecentLoop(t)
  \/ GetStatsCall(t)
  \/ GetStatsInit(t)
  \/ GetStatsLoop(t)
  \/ ClearCall(t)
  \/ ClearHead(t)
  \/ ClearCount(t)
  \/ Acquire(t)
  \/ Release(t)

Next == Construct \/ \E t \in Threads : Step(t)

\* Concurrent callers of a log of positive capacity.
Init ==
  /\ Start(1..NumThreads, 1..ConcMaxCapacity, ConcMaxAdds, ConcKwargsSet)
  /\ req = NoRequest

Spec == Init /\ [][Next]_vars

\* The statements of a critical section, its exit included: a caller that
\* holds the lock is not blocked by anything and keeps being scheduled.
InsideStep(t) ==
  \/ AddStore(t)
  \/ AddHead(t)
  \/ AddCount(t)
  \/ GetRecentInit(t)
  \/ GetRecentLoop(t)
  \/ GetStatsInit(t)
  \/ GetStatsLoop(t)
  \/ ClearHead(t)
  \/ ClearCount(t)
  \/ Release(t)

\* Fair scheduling of threads: a caller inside its critical section keeps
\* running, and a caller blocked in `with self._lock` takes the lock if it
\* stays free.  threading.Lock keeps no queue and hands the lock to no one:
\* when it is freed again and again a blocked caller may lose every race, so
\* no more than weak fairness holds of acquiring.  Nothing obliges a caller
\* to start an operation.
Fairness ==
  \A t \in 1..NumThreads :
    WF_vars(InsideStep(t)) /\ WF_vars(Acquire(t))

\* The same callers and capacities with fewer adds: progress depends on the
\* lock, not on how many entries the log holds.
InitFair ==
  /\ Start(1..NumThreads, 1..ConcMaxCapacity, FairMaxAdds, ConcKwargsSet)
  /\ req = NoRequest

SpecFair == InitFair /\ [][Next]_vars /\ Fairness

\* ---------------------------------------------------------------- x402
\* x402_middleware.py: require_x402_payment and _verify_payment.

Addresses == {"0xabc", "0xABC", "0xdef", ""}

Payments ==
  [kind : {"payment"}, version : {0, 1, 2}, to : Addresses,
   amount : 0..MaxAmount, numeric : BOOLEAN, validBefore : 0..MaxTime]

Headers ==
  {NoPayment("absent"), NoPayment("empty"), NoPayment("garbage"),
   NoPayment("not_object")} \cup Payments

\* The decorator's arguments: price, and recipient (or X402_RECIPIENT, or "").
Prices == 0..MaxAmount

Wallets == {"0xabc", "0xABC", ""}

\* The facilitator's answer to POST /verify: a status, or no answer (the
\* client raises).
FacilitatorAnswers == {"200", "500", "error"}

\* str.lower() on the addresses of the model.
Lower(a) == IF a = "0xABC" THEN "0xabc" ELSE a

\* Line 56: not payment_header (None and "" are false).
HeaderMissing(h) == h.kind \in {"absent", "empty"}

\* Line 87: b64decode, decode and json.loads succeed.
Decodes(h) == h.kind \in {"not_object", "payment"}

\* Line 93.
WrongRecipient(to, recipient) == Lower(to) # Lower(recipient)

\* Line 97.
AmountTooLowReversed(amount, min_price) == amount > min_price

AmountTooLow(amount, min_price) == amount < min_price

\* Line 101.
Expired(now, validBefore) == now > validBefore

\* Lines 84-102 and 108-109: the checks before the facilitator is asked.
\* TRUE: the request goes on to the facilitator; FALSE: _verify_payment
\* returns False, by a failed check or by an exception caught at line 108.
LocalChecks(h, min_price, recipient, now) ==
  IF ~Decodes(h) THEN FALSE
  ELSE IF h.kind = "not_object" THEN FALSE
  ELSE IF h.version # 1 THEN FALSE
  ELSE IF WrongRecipient(h.to, recipient) THEN FALSE
  ELSE IF ~h.numeric THEN FALSE
  ELSE IF AmountTooLow(h.amount, min_price) THEN FALSE
  ELSE IF Expired(now, h.validBefore) THEN FALSE
  ELSE TRUE

LogUnchanged ==
  UNCHANGED <<built, max_size, buffer, head, count, lock, heap, clock, env, pc,
              loc, stamps, hist>>

\* Line 54: a request arrives at the wrapped endpoint.  The wrapper keeps
\* nothing from one request to the next: a behaviour follows one request.
Receive ==
  /\ req.pc = "none"
  /\ \E h \in Headers :
       req' = [NoRequest EXCEPT !.price = req.price, !.wallet = req.wallet,
                                !.header = h, !.pc = "check_header"]
  /\ LogUnchanged

\* Lines 56-71: no header, 402 with the payment requirements.
CheckHeader ==
  /\ req.pc = "check_header"
  /\ IF HeaderMissing(req.header)
       THEN req' = [req EXCEPT !.status = 402, !.by = "wrapper", !.pc = "done"]
       ELSE req' = [req EXCEPT !.pc = "verify"]
  /\ LogUnchanged

\* Lines 84-102: _verify_payment up to the request to the facilitator; line
\* 101 reads the time.
VerifyLocal ==
  /\ req.pc = "verify"
  /\ \E now \in 1..MaxTime :
       IF LocalChecks(req.header, req.price, req.wallet, now)
         THEN req' = [req EXCEPT !.now = now, !.pc = "post"]
         ELSE req' = [req EXCEPT !.now = now, !.verified = "false",
                                 !.pc = "decide"]
  /\ LogUnchanged

\* Lines 104-109: the facilitator answers, or the client raises.
FacilitatorReply ==
  /\ req.pc = "post"
  /\ \E a \in FacilitatorAnswers :
       req' = [req EXCEPT !.fac = a,
                          !.verified = IF a = "200" THEN "true" ELSE "false",
                          !.pc = "decide"]
  /\ LogUnchanged

\* Lines 73-74: verification failed, 403.
Reject ==
  /\ req.pc = "decide"
  /\ req.verified # "true"
  /\ req' = [req EXCEPT !.status = 403, !.by = "wrapper", !.pc = "done"]
  /\ LogUnchanged

\* Line 76, func(request, *args, **kwargs): the wrapped handler is invoked.
CallHandler ==
  /\ req.pc = "decide"
  /\ req.verified = "true"
  /\ req' = [req EXCEPT !.invoked = TRUE, !.pc = "handler"]
  /\ LogUnchanged

\* Line 76, await: the handler runs, other code with it; what it does is its
\* own, and it may use an InteractionLog.
HandlerRuns ==
  /\ req.pc = "handler"
  /\ Next

\* The status of the response a handler may return.
HandlerStatuses == {200, 403, 500}

\* Line 76, return: the wrapper returns whatever the handler returned.
HandlerReturns ==
  /\ req.pc = "handler"
  /\ \E st \in HandlerStatuses :
       req' = [req EXCEPT !.status = st, !.by = "handler", !.pc = "done"]
  /\ LogUnchanged

\* Line 76: the handler raises and the wrapper lets the exception through.
HandlerRaises ==
  /\ req.pc = "handler"
  /\ req' = [req EXCEPT !.by = "exception", !.pc = "done"]
  /\ LogUnchanged

NextPay ==
  \/ Receive
  \/ CheckHeader
  \/ VerifyLocal
  \/ FacilitatorReply
  \/ Reject
  \/ CallHandler
  \/ HandlerRuns
  \/ HandlerReturns
  \/ HandlerRaises

\* Lines 36-49: the decorator is applied with a price and a recipient.
InitPay ==
  /\ Start({1}, 1..PayLogCapacity, PayLogAdds, ConcKwargsSet)
  /\ req \in {[NoRequest EXCEPT !.price = p, !.wallet = w] :
                p \in Prices, w \in Wallets}

SpecPay == InitPay /\ [][NextPay]_vars

\* One caller, of a log of any capacity a caller may pass, non-positive
\* included.
InitSeq ==
  /\ Start({1}, (0 - 1)..SeqMaxCapacity, SeqMaxAdds, KwargsSet)
  /\ req = NoRequest

SpecSeq == InitSeq /\ [][Next]_vars


\* ---------------------------------------------------------------- history
\* What the calls made so far should have left in the log, told from the
\* history of the calls and not from head and count.
Max(a, b) == IF a > b THEN a ELSE b

LastOf(s, k) == SubSeq(s, Len(s) - k + 1, Len(s))

Range(s) == {s[i] : i \in DOMAIN s}

\* The entries retained: the last capacity-many added since the last clear.
Expected == LastOf(hist, Min(Len(hist), Max(max_size, 0)))

HasType(r) == "type" \in DOMAIN heap[r]

TypesOf(s) == {heap[s[i]]["type"] : i \in {j \in DOMAIN s : HasType(s[j])}}

CountWithType(s, v) ==
  Cardinality({i \in DOMAIN s : HasType(s[i]) /\ heap[s[i]]["type"] = v})

CountUntyped(s) == Cardinality({i \in DOMAIN s : ~HasType(s[i])})

TypeCounts(s) == [v \in TypesOf(s) |-> CountWithType(s, v)]

RECURSIVE SumOver(_, _)
SumOver(d, keys) ==
  IF keys = {} THEN 0
  ELSE LET k == CHOOSE x \in keys : TRUE
       IN  d[k] + SumOver(d, keys \ {k})

SumDict(d) == SumOver(d, DOMAIN d)

Distinct(s) == \A i, j \in DOMAIN s : i # j => s[i] # s[j]

\* References are handed out in the order the entries were built.
Increasing(s) == \A i, j \in DOMAIN s : i < j => s[i] < s[j]

\* The positions between entering and leaving `with self._lock`.
CriticalSection ==
  {"add_store", "add_head", "add_count", "add_exit",
   "gr_init", "gr_loop", "gr_return",
   "gs_init", "gs_loop", "gs_return",
   "cl_head", "cl_count", "cl_exit", "raise"}

InCS(t) == pc[t] \in CriticalSection

Waiting(t) == pc[t] \in {"add_acquire", "gr_acquire", "gs_acquire", "cl_acquire"}

\* ---------------------------------------------------------------- claims

\* C1: for a log of capacity c >= 1, after k add calls (since construction or
\* the last clear) a get_stats that returns reports total = min(k, c).
C1_TotalIsMinOfAddsAndCapacity ==
  \A t \in Threads :
    (pc[t] = "gs_return" /\ max_size >= 1)
      => loc[t].total = Min(Len(hist), max_size)

\* C1 witness: get_stats returns total = c after more than c adds.
C1_Witness ==
  \E t \in Threads :
    /\ pc[t] = "gs_return"
    /\ max_size >= 2
    /\ Len(hist) > max_size
    /\ loc[t].total = max_size

\* C2: after k >= 1 sequential adds into a log of capacity c >= 1,
\* get_recent(k) returns min(k, c) entries, exactly the last min(k, c) added,
\* oldest first, also when the window wraps around the end of the slot array.
C2_RecentKeepsInsertionOrder ==
  \A t \in Threads :
    (pc[t] = "gr_return" /\ max_size >= 1 /\ Len(hist) >= 1
       /\ loc[t].n = Len(hist))
      => /\ Len(loc[t].result) = Min(Len(hist), max_size)
         /\ loc[t].result = LastOf(hist, Min(Len(hist), max_size))
         /\ Increasing(loc[t].result)

\* C2 witness: get_recent(k) returns after k > c adds, from a window that
\* wraps around the end of the slot array.
C2_Witness ==
  \E t \in Threads :
    /\ pc[t] = "gr_return"
    /\ loc[t].n = Len(hist)
    /\ Len(hist) > max_size
    /\ loc[t].start + loc[t].count > max_size
    /\ Len(loc[t].result) >= 2

\* C3: once more than c entries were added to a log of capacity c, exactly
\* the last c are retained: get_recent(n) returns none of the older ones for
\* any n and exactly the last c, in insertion order, for every n >= c, and
\* get_stats counts the last c and no other.
C3_OverwriteKeepsLastCapacity ==
  \A t \in Threads :
    (max_size >= 1 /\ Len(hist) > max_size)
      => /\ pc[t] = "gr_return"
              => /\ Range(loc[t].result) \subseteq Range(LastOf(hist, max_size))
                 /\ loc[t].n >= max_size
                      => loc[t].result = LastOf(hist, max_size)
         /\ pc[t] = "gs_return"
              => /\ loc[t].total = max_size
                 /\ loc[t].by_type = TypeCounts(LastOf(hist, max_size))

\* C3 witness: capacity 3, four entries added, get_recent(n) with n beyond
\* the capacity returns the last three.
C3_Witness ==
  \E t \in Threads :
    /\ pc[t] = "gr_return"
    /\ max_size = 3
    /\ hist = <<1, 2, 3, 4>>
    /\ loc[t].n > max_size
    /\ loc[t].result = <<2, 3, 4>>

\* C4: when concurrent add calls, no more than the capacity, have completed
\* on an empty log, every one of them is retained: count is their number,
\* each added entry occupies exactly one slot, and get_recent of that number
\* returns them all, each once.
C4_ConcurrentAddsAllRetained ==
  /\ (lock = 0 /\ Len(hist) <= max_size)
       => /\ count = Len(hist)
          /\ \A k \in DOMAIN hist :
               Cardinality({i \in DOMAIN buffer : buffer[i] = hist[k]}) = 1
  /\ \A t \in Threads :
       (pc[t] = "gr_return" /\ Len(hist) <= max_size /\ loc[t].n = Len(hist))
         => /\ Len(loc[t].result) = Len(hist)
            /\ Distinct(loc[t].result)
            /\ Range(loc[t].result) = Range(hist)
  /\ \A t \in Threads :
       (pc[t] = "gs_return" /\ Len(hist) <= max_size)
         => loc[t].total = Len(hist)

\* C4 witness: every thread has added one entry to a log that was empty, the
\* calls overlapped (an entry built later was stored earlier), and all have
\* returned.
C4_Witness ==
  /\ \A t \in Threads : pc[t] = "idle"
  /\ Len(heap) = NumThreads
  /\ Len(hist) = NumThreads
  /\ count = NumThreads
  /\ \E k \in 1..(Len(hist) - 1) : hist[k] > hist[k + 1]

\* C5: no two execution contexts are inside a critical section of the log at
\* once, and the one inside holds the lock.
C5_MutualExclusion ==
  /\ \A t1, t2 \in Threads : (t1 # t2) => ~(InCS(t1) /\ InCS(t2))
  /\ \A t \in Threads : InCS(t) => lock = t

\* C5 witness: one context is part-way through add's writes while another
\* waits for the lock.
C5_Witness ==
  \E t1, t2 \in Threads :
    /\ t1 # t2
    /\ pc[t1] = "add_head"
    /\ Waiting(t2)

\* C6: after clear(), whatever the log held, a read made before any further
\* add returns an empty result: get_recent(n) = [] for every n, and
\* get_stats() = {total: 0, by_type: {}}.
C6_ClearThenReadIsEmpty ==
  \A t \in Threads :
    hist = <<>>
      => /\ pc[t] = "gr_return" => loc[t].result = <<>>
         /\ pc[t] = "gs_return"
              => (loc[t].total = 0 /\ loc[t].by_type = EmptyDict)

\* C6 witness: get_recent(n), n >= 1, returns after a clear of a log that had
\* wrapped, its slots all still holding the old entries.
C6_Witness ==
  \E t \in Threads :
    /\ pc[t] = "gr_return"
    /\ hist = <<>>
    /\ loc[t].n >= 1
    /\ max_size >= 2
    /\ Len(heap) > max_size
    /\ \A i \in DOMAIN buffer : buffer[i] # None

\* C7: a get_stats that returns reports by_type whose counts, plus the number
\* of retained entries without a type field, add up to total, and by_type[v]
\* is the number of retained entries whose type is v.
C7_ByTypeCountsRetained ==
  \A t \in Threads :
    pc[t] = "gs_return"
      => /\ SumDict(loc[t].by_type) + CountUntyped(Expected) = loc[t].total
         /\ DOMAIN loc[t].by_type = TypesOf(Expected)
         /\ \A v \in DOMAIN loc[t].by_type :
              loc[t].by_type[v] = CountWithType(Expected, v)

\* C7 witness: get_stats returns for a log of capacity 3 that has wrapped and
\* retains entries of two types and one entry without a type field.
C7_Witness ==
  \E t \in Threads :
    /\ pc[t] = "gs_return"
    /\ Len(hist) > max_size
    /\ CountUntyped(Expected) = 1
    /\ Cardinality(DOMAIN loc[t].by_type) = 2
    /\ loc[t].total = 3

\* C8: a log built with a non-positive capacity fails at construction: no
\* instance with max_size <= 0 becomes usable.
C8_ConstructorRejectsNonPositive == built => max_size >= 1

\* C9: the timestamp field of every stored entry is the value the log read
\* from the clock during that add call, whatever fields the caller passed.
C9_TimestampIsTheLogs ==
  \A i \in DOMAIN buffer :
    buffer[i] # None => heap[buffer[i]]["timestamp"] = stamps[buffer[i]]

\* C10: on a log of positive capacity no call of add, get_recent, get_stats
\* or clear ends in an error.
C10_NoOperationRaises ==
  \A t \in Threads : max_size >= 1 => pc[t] # "raise"


\* C11: on a log of capacity c >= 1 the cursors stay in range under every
\* interleaving of the four operations, the states part-way through a
\* critical section included: 0 <= head < c, 0 <= count <= c, and the slot
\* array keeps length c.
C11_CursorsInRange ==
  (built /\ max_size >= 1)
    => /\ 0 <= head /\ head < max_size
       /\ 0 <= count /\ count <= max_size
       /\ Len(buffer) = max_size

\* C11 witness: an add has just filled the log and wrapped head around to
\* slot 0, still holding the lock, while another caller waits for it.
C11_Witness ==
  /\ built /\ max_size >= 2
  /\ head = 0 /\ count = max_size
  /\ Len(hist) = max_size
  /\ \E t, u \in Threads : pc[t] = "add_exit" /\ Waiting(u)

\* The callers are between operations: none has called and not yet returned.
AllIdle == \A t \in Threads : pc[t] = "idle"

\* The slot the spec names for the most recently written entry.
SlotBeforeHead == PyMod(head - 1 + max_size, max_size)

\* C12 (as claimed): after any sequence of add and clear calls of one caller
\* with at least one add, the entry written by the most recent add occupies
\* slot (head - 1 + capacity) mod capacity.
C12_LastAddBeforeHead ==
  (AllIdle /\ max_size >= 1 /\ Len(heap) >= 1)
    => buffer[SlotBeforeHead + 1] = Len(heap)

\* C12 (amended): after any sequence of add and clear calls whose last add
\* came after the last clear, the entry written by the most recent add
\* occupies slot (head - 1 + capacity) mod capacity.
C12_LastAddBeforeHeadSinceClear ==
  (lock = 0 /\ max_size >= 1 /\ hist # <<>>)
    => buffer[SlotBeforeHead + 1] = hist[Len(hist)]

\* C12 witness: entries were added, the log was cleared with head not at 0,
\* and one more entry was added.
C12_Witness ==
  /\ AllIdle
  /\ max_size >= 3
  /\ Len(hist) = 1
  /\ Len(heap) = 3
  /\ head = 1

\* C13: on a log of positive capacity get_recent(n) with n >= 0 returns
\* exactly min(n, count) entries, and every slot of the logical window ending
\* just before head holds an entry, also after clear and further adds.
C13_RecentLengthIsMin ==
  /\ (lock = 0 /\ max_size >= 1)
       => \A i \in 0..(count - 1) :
            buffer[PyMod(head - count + i, max_size) + 1] # None
  /\ \A t \in Threads :
       (pc[t] = "gr_return" /\ max_size >= 1 /\ loc[t].n >= 0)
         => /\ Len(loc[t].result) = Min(loc[t].n, count)
            /\ Len(loc[t].result) = Min(loc[t].n, Min(Len(hist), max_size))

\* C13 witness: after a clear and one further add, get_recent(n) with n
\* beyond count and capacity returns the one entry.
C13_Witness ==
  \E t \in Threads :
    /\ pc[t] = "gr_return"
    /\ max_size >= 2
    /\ Len(heap) > Len(hist)
    /\ Len(hist) = 1
    /\ loc[t].n > max_size
    /\ Len(loc[t].result) = 1

\* C14: no entry added before the last clear is returned by get_recent or
\* counted by get_stats, though it may still sit in a slot.
C14_ClearedEntriesNeverExposed ==
  \A t \in Threads :
    /\ pc[t] = "gr_return" => Range(loc[t].result) \subseteq Range(hist)
    /\ pc[t] = "gs_return"
         => /\ loc[t].total <= Len(hist)
            /\ loc[t].by_type = TypeCounts(Expected)

\* C14 witness: get_recent(n), n at least the capacity, returns entries
\* while a slot still holds an entry added before the last clear.
C14_Witness ==
  \E t \in Threads :
    /\ pc[t] = "gr_return"
    /\ loc[t].n >= max_size
    /\ loc[t].result # <<>>
    /\ \E i \in DOMAIN buffer :
         buffer[i] # None /\ buffer[i] \notin Range(hist)

\* What get_recent(n) returns on the state left by the critical sections
\* executed so far, in their serial order: the newest min(n, retained) of the
\* retained entries, oldest first.
SnapshotRecent(n) == LastOf(Expected, Min(Max(n, 0), Len(Expected)))

ReaderSection == {"gr_init", "gr_loop", "gr_return", "gs_init", "gs_loop", "gs_return"}

\* C15: under any interleaving every read returns a point-in-time snapshot:
\* its result is what the read returns on the state produced by the critical
\* sections executed before it, in their serial order, and while a read is
\* inside its critical section no writer is part-way through its own.
C15_ReadsAreSnapshots ==
  \A t \in Threads :
    /\ (pc[t] = "gr_return" /\ max_size >= 1)
         => loc[t].result = SnapshotRecent(loc[t].n)
    /\ (pc[t] = "gs_return" /\ max_size >= 1)
         => /\ loc[t].total = Len(Expected)
            /\ loc[t].by_type = TypeCounts(Expected)
    /\ pc[t] \in ReaderSection
         => \A u \in Threads \ {t} : ~InCS(u)

\* C15 witness: a get_recent has its result ready, with entries in it, while
\* another caller's add has built its entry and waits for the lock.
C15_Witness ==
  \E t, u \in Threads :
    /\ t # u
    /\ pc[t] = "gr_return"
    /\ loc[t].result # <<>>
    /\ pc[u] = "add_acquire"

PosIn(s, x) == CHOOSE i \in DOMAIN s : s[i] = x

\* C16 (as claimed): in every get_recent result each entry's log-assigned
\* timestamp is not later than that of the entry that follows it, also when
\* add calls of several callers interleave.
C16_ChronologicalByTimestamp ==
  \A t \in Threads :
    pc[t] = "gr_return"
      => \A i, j \in DOMAIN loc[t].result :
           i < j => stamps[loc[t].result[i]] <= stamps[loc[t].result[j]]

\* C16 (amended): every get_recent result lists its entries in the order in
\* which add stored them; the log-assigned timestamp of an entry is not later
\* than that of a later one whenever its add also read the clock first.
C16_StorageOrder ==
  \A t \in Threads :
    pc[t] = "gr_return"
      => \A i, j \in DOMAIN loc[t].result :
           i < j
             => /\ loc[t].result[i] \in Range(hist)
                /\ loc[t].result[j] \in Range(hist)
                /\ PosIn(hist, loc[t].result[i]) < PosIn(hist, loc[t].result[j])
                /\ (loc[t].result[i] < loc[t].result[j]
                      => stamps[loc[t].result[i]] <= stamps[loc[t].result[j]])

\* C16 witness: a get_recent returns two entries of which the one stored
\* first read the clock last.
C16_Witness ==
  \E t \in Threads :
    /\ pc[t] = "gr_return"
    /\ Len(loc[t].result) = 2
    /\ stamps[loc[t].result[1]] > stamps[loc[t].result[2]]

\* C17 (as claimed): the lock is released on every exit path, the exit by
\* an exception inside the critical section included: the step that ends an
\* operation leaves the lock free, a caller outside its critical section
\* never holds it, and under fair scheduling every started operation
\* completes.
C17_EveryStartedOperationCompletes ==
  /\ [][(\E t \in 1..NumThreads : pc[t] # "idle" /\ pc'[t] = "idle")
          => lock' = 0]_vars
  /\ [](\A t \in 1..NumThreads : (pc[t] = "idle" \/ Waiting(t)) => lock # t)
  /\ \A t \in 1..NumThreads : (pc[t] # "idle") ~> (pc[t] = "idle")

\* C17 (amended): the lock is released on every exit path, the exit by an
\* exception inside the critical section included: the step that ends an
\* operation leaves the lock free and a caller outside its critical section
\* never holds it.  Under fair scheduling every operation that has taken the
\* lock completes, the lock is free again and again, and while callers wait
\* for a free lock one of them takes it: the log never deadlocks.
C17_LockAlwaysReleased ==
  /\ [][(\E t \in 1..NumThreads : pc[t] # "idle" /\ pc'[t] = "idle")
          => lock' = 0]_vars
  /\ [](\A t \in 1..NumThreads : (pc[t] = "idle" \/ Waiting(t)) => lock # t)
  /\ \A t \in 1..NumThreads : InCS(t) ~> (pc[t] = "idle")
  /\ []<>(lock = 0)
  /\ \A t \in 1..NumThreads : (Waiting(t) /\ lock = 0) ~> (lock # 0)

\* C17 witness: an operation is leaving its critical section by an exception,
\* still holding the lock, while another caller is blocked on the lock.
C17_Witness ==
  \E t, u \in Threads :
    /\ pc[t] = "raise"
    /\ lock = t
    /\ Waiting(u)

NotNone(r) == r # None

\* get_recent(n) as a function of the log's state (lines 41-49).
RecentOf(n) ==
  LET c == WindowCount(n, count)
      start == WindowStart(head, c, max_size)
      slots == [i \in 1..c |->
                  buffer[PyIndex(buffer, RecentIndex(start, i - 1, max_size))]]
  IN  SelectSeq(slots, NotNone)

\* The slots get_stats visits, in its order (lines 54-56).
StatsSlots ==
  [i \in 1..count |->
     buffer[PyIndex(buffer, StatsIndex(head, count, i - 1, max_size))]]

\* No add or clear is part-way through its critical section.
NoWriterInside == lock = 0 \/ pc[lock] \in ReaderSection

\* C18: on a log of positive capacity get_stats and get_recent iterate the
\* same logical window: the slots get_stats visits are the entries of
\* get_recent(count) in the same order, get_stats' total is the length of
\* get_recent(capacity) and its by_type is the per-type count over
\* get_recent(count).
C18_StatsAgreesWithRecent ==
  /\ (built /\ max_size >= 1 /\ NoWriterInside)
       => /\ StatsSlots = RecentOf(count)
          /\ count = Len(RecentOf(max_size))
  /\ \A t \in Threads :
       /\ (pc[t] = "gs_return" /\ max_size >= 1)
            => /\ loc[t].total = Len(RecentOf(max_size))
               /\ loc[t].by_type = TypeCounts(RecentOf(count))
       /\ (pc[t] = "gr_return" /\ max_size >= 1)
            => loc[t].result = RecentOf(loc[t].n)

\* C18 witness: get_stats returns on a full log whose window wraps around
\* the end of the slot list and holds entries with and without a type.
C18_Witness ==
  \E t \in Threads :
    /\ pc[t] = "gs_return"
    /\ max_size >= 2
    /\ Len(hist) > max_size
    /\ head # 0
    /\ loc[t].by_type # EmptyDict
    /\ CountUntyped(RecentOf(count)) >= 1

ReadPositions ==
  {"gr_acquire", "gr_init", "gr_loop", "gr_return",
   "gs_acquire", "gs_init", "gs_loop", "gs_return"}

ClearPositions == {"cl_acquire", "cl_head", "cl_count", "cl_exit"}

\* The step is one of caller t.
StepOf(t) == pc'[t] # pc[t] \/ loc'[t] # loc[t]

\* C19: every step of get_recent and of get_stats, from the call to the
\* return, leaves head, count, every slot, every entry and the capacity
\* unchanged; every step of clear leaves the slots, the entries and the
\* capacity unchanged, and clear leaves head and count at 0.
C19_ReadsAndClearFrame ==
  [][\A t \in Threads :
       /\ (StepOf(t) /\ (pc[t] \in ReadPositions \/ pc'[t] \in ReadPositions))
            => UNCHANGED <<head, count, buffer, heap, max_size>>
       /\ (StepOf(t) /\ (pc[t] \in ClearPositions \/ pc'[t] \in ClearPositions))
            => UNCHANGED <<buffer, heap, max_size>>
       /\ (pc[t] = "cl_count" /\ pc'[t] = "cl_exit")
            => (head' = 0 /\ count' = 0)]_vars

\* C19 witness: clear has done its work on a log that held entries: head and
\* count are 0 and the slots still hold the entries.
C19_Witness ==
  \E t \in Threads :
    /\ pc[t] = "cl_exit"
    /\ head = 0 /\ count = 0
    /\ Len(heap) >= 2
    /\ \A i \in DOMAIN buffer : buffer[i] # None

\* A payment the claim lists as failing verification: malformed header,
\* wrong version, wrong recipient, amount not a number or below the price,
\* expired, or a facilitator that does not answer 200.
BadPayment ==
  \/ req.header.kind \in {"garbage", "not_object"}
  \/ req.header.version # 1
  \/ Lower(req.header.to) # Lower(req.wallet)
  \/ ~req.header.numeric
  \/ req.header.amount < req.price
  \/ req.now > req.header.validBefore
  \/ req.fac # "200"

\* C20: the handler wrapped by require_x402_payment runs only for a request
\* that carried an X-PAYMENT header for which _verify_payment returned true
\* (a well-formed version-1 payment to the recipient, of at least the price,
\* not expired, accepted by the facilitator with 200); a request without the
\* header ends with 402 and one whose verification fails or raises ends with
\* 403, both without the handler having run.
C20_HandlerGated ==
  /\ req.invoked
       => /\ ~HeaderMissing(req.header)
          /\ req.verified = "true"
          /\ ~BadPayment
          /\ req.by # "wrapper"
  /\ (req.pc = "done" /\ req.header.kind = "absent")
       => (req.status = 402 /\ req.by = "wrapper" /\ ~req.invoked)
  /\ (req.pc = "done" /\ ~HeaderMissing(req.header) /\ BadPayment)
       => (req.status = 403 /\ req.by = "wrapper" /\ ~req.invoked)
  /\ (req.pc \in {"handler", "done"}) => (req.invoked <=> req.by # "wrapper")

\* C20 witness: the handler has run and returned for a payment of exactly
\* the price, at its deadline, to the recipient's address written in another
\* case.
C20_Witness ==
  /\ req.pc = "done"
  /\ req.invoked
  /\ req.by = "handler"
  /\ req.status = 200
  /\ req.header.to = "0xABC" /\ req.wallet = "0xabc"
  /\ req.header.amount = req.price /\ req.price >= 1
  /\ req.now = req.header.validBefore

=============================================================================
